---- MODULE Spec2Model ----
(***************************************************************************)
(* The label aggregation of rubrix.labeling.text_classification:           *)
(* MajorityVoter.predict / score / fit (label_models.py).                  *)
(*                                                                         *)
(* Arrays are sequences; a label index, a vote code and a row index are    *)
(* the 0-based numbers of the code, so entry idx of a probability row p is *)
(* p[idx + 1] and row i of a matrix m is m[i + 1].                         *)
(*                                                                         *)
(* Probabilities are exact fixed-point numbers: the real number x is the   *)
(* integer x * Scale.  Every quotient the code forms (count / row sum,     *)
(* 1 / k, 1e-4 / (m - 1)) is a whole number of units, and so is the        *)
(* tolerance 1e-8 of the tie test, so no rounding happens in the model;    *)
(* the model is the code in exact arithmetic.                              *)
(***************************************************************************)
EXTENDS Integers, Sequences, FiniteSets, TLC

VARIABLES
    multi_label,   \* isinstance(self._weak_labels, WeakMultiLabels)
    wl_matrix,     \* self._weak_labels: the votes, one row per record
    annotation,    \* self._weak_labels: the ground truth per record (missing: -1)
    records,       \* self._weak_labels: the record handles, one per row
    numpy_build,   \* which order np.argsort gives to equal keys
    models,        \* FlyingSquid: self._models, the fitted models (empty: not fitted)
    es,            \* DatasetsDAO: self._es, the search engine behind the wrapper
    result         \* outcome of the last call on the label model

vars == <<multi_label, wl_matrix, annotation, records, numpy_build, models, es, result>>

-----------------------------------------------------------------------------
(* Bounds *)

\* largest number of records of a single-label dataset
MaxRecords == 2
\* largest number of records of a multi-label dataset
MaxMultiRecords == 1
\* largest number of records of a weak label tensor given to _compute_multi_label_probs
MaxTensorRecords == 1
\* largest number of rows of a probability array given to the single-label helpers
MaxProbabilityRows == 1
\* largest number of records of a multi-label dataset that is scored
MaxScoredMultiRecords == 2

\* self._weak_labels.labels: the vocabulary, in order
labels == <<"A", "B", "C">>
\* self._weak_labels.rules
rules == <<"rule0", "rule1">>

cardinality == Len(labels)
NumRules == Len(rules)

-----------------------------------------------------------------------------
(* Arithmetic *)

RECURSIVE Gcd(_, _)
Gcd(a, b) == IF b = 0 THEN a ELSE Gcd(b, a % b)

RECURSIVE LcmUpTo(_)
LcmUpTo(n) == IF n <= 1 THEN 1 ELSE (LcmUpTo(n - 1) * n) \div Gcd(LcmUpTo(n - 1), n)

\* the fixed-point unit: 1.0 is Scale
Scale == 100000000 * LcmUpTo(IF NumRules > cardinality THEN NumRules ELSE cardinality)

\* _PROBABILITY_INCREASE_ON_TIE_BREAK = 0.0001
PROBABILITY_INCREASE_ON_TIE_BREAK == Scale \div 10000

\* d < 1.0e-8 for a difference d >= 0 in units: d / Scale < 1 / 10^8
BelowTolerance(d) == d < (Scale + 100000000 - 1) \div 100000000

\* the multi-label probabilities are float16 0.0, 1.0 or nan
NaN == -1

Abs(x) == IF x < 0 THEN -x ELSE x

RECURSIVE SeqSum(_)
SeqSum(s) == IF s = <<>> THEN 0 ELSE Head(s) + SeqSum(Tail(s))

SeqMax(s) == CHOOSE x \in {s[j] : j \in DOMAIN s} : \A j \in DOMAIN s : s[j] <= x

Reverse(s) == [j \in 1..Len(s) |-> s[Len(s) + 1 - j]]

InSeq(x, s) == \E j \in DOMAIN s : s[j] = x

\* the positions (1-based) at which a mask is True, ascending, from position j on
RECURSIVE Where(_, _)
Where(mask, j) ==
    IF j > Len(mask) THEN <<>>
    ELSE (IF mask[j] THEN <<j>> ELSE <<>>) \o Where(mask, j + 1)

CountTrue(mask) == Len(Where(mask, 1))

Negated(mask) == [j \in 1..Len(mask) |-> ~mask[j]]

\* the entries of arr at the positions kept
TakeAt(arr, kept) == [j \in 1..Len(kept) |-> arr[kept[j]]]

\* numpy boolean-mask indexing: arr[mask]
Masked(arr, mask) == TakeAt(arr, Where(mask, 1))

-----------------------------------------------------------------------------
(* hashlib.sha1(f"{i}".encode()).hexdigest() read as an integer, modulo 2520 *)
(* (= lcm(1..10)), for the row indices i = 0..9:                            *)
(*   sha1("0") = b6589fc6ab0dc82cf12099d1c2d40ab994e8410c, and so on.       *)
Sha1Mod2520 == <<228, 243, 576, 139, 1290, 996, 1048, 2258, 2263, 1927>>

\* Sha1Index, as if the index came from a generator that every call advances
Sha1IndexAdvancing(i, m) == (Sha1Mod2520[i + 1] + (IF result.op = "none" THEN 0 ELSE 1)) % m

\* int(hashlib.sha1(f"{i}".encode()).hexdigest(), 16) % m, for m dividing 2520
Sha1Index(i, m) == Sha1Mod2520[i + 1] % m

-----------------------------------------------------------------------------
(* The enumeration TieBreakPolicy *)

TieBreakPolicy == {"abstain", "random", "true-random"}

-----------------------------------------------------------------------------
(* The weak labels (rubrix.labeling.text_classification.weak_labels).      *)

None == <<>>

\* label2int: the code of a label (abstain, None, is -1)
label2int(label) == (CHOOSE c \in 1..cardinality : labels[c] = label) - 1

\* int2label, then labels.index: the place of a code's label in the vocabulary
labels_index(code) == (CHOOSE c \in 1..cardinality : label2int(labels[c]) = code) - 1

\* a record has an annotation
HasAnnotation(a) == IF multi_label THEN \E c \in DOMAIN a : a[c] # -1 ELSE a # -1

\* the rows a has_annotation filter keeps ("None": all rows), as a mask
AnnotationMask(has_annotation) ==
    [i \in 1..Len(wl_matrix) |->
        \/ has_annotation = "None"
        \/ has_annotation = "True" /\ HasAnnotation(annotation[i])
        \/ has_annotation = "False" /\ ~HasAnnotation(annotation[i])]

\* WeakLabels.matrix(has_annotation=...)
matrix(has_annotation) == Masked(wl_matrix, AnnotationMask(has_annotation))

\* WeakLabels.records(has_annotation=...)
records_of(has_annotation) == Masked(records, AnnotationMask(has_annotation))

\* WeakLabels.annotation(): the annotations of the annotated records
annotation_array == Masked(annotation, AnnotationMask("True"))

-----------------------------------------------------------------------------
(* numpy *)

\* key a sorts before key b (nan sorts last)
KeyLess(a, b) == a # NaN /\ (b = NaN \/ a < b)

\* np.argsort(prob): the 0-based indices in ascending order of their keys.  The
\* default kind is not a stable sort: equal keys come in index order from the
\* scalar routine (an insertion sort on short arrays), and in another order
\* from a vectorised one, of which the opposite order is modelled.
argsort(prob, build) ==
    LET Before(a, b) ==
            \/ KeyLess(prob[a], prob[b])
            \/ /\ prob[a] = prob[b]
               /\ IF build = "scalar" THEN a < b ELSE a > b
        Rank(a) == Cardinality({b \in DOMAIN prob : Before(b, a)})
    IN  [r \in 1..Len(prob) |-> (CHOOSE a \in DOMAIN prob : Rank(a) = r - 1) - 1]

\* the 0-based index of the first of the positions, 0 when there is none
FirstIndex(positions) == IF positions = <<>> THEN 0 ELSE positions[1] - 1

\* np.argmax(mask): the index of the first True entry
argmax(mask) == FirstIndex(Where(mask, 1))

-----------------------------------------------------------------------------
(* MajorityVoter, single-label *)

\* np.count_nonzero(wl_matrix == label2int[label], axis=1) for one row
count_nonzero(row, code) == Cardinality({r \in DOMAIN row : row[r] = code})

\* normalize, as if the counts were divided by the number of rules
normalize_by_rules(counts, sum) ==
    IF sum = 0
    THEN [c \in 1..cardinality |-> Scale \div cardinality]
    ELSE [c \in 1..cardinality |-> (counts[c] * Scale) \div NumRules]

\* normalize, as if nan were replaced by 0
normalize_nan_to_zero(counts, sum) ==
    IF sum = 0
    THEN [c \in 1..cardinality |-> 0]
    ELSE [c \in 1..cardinality |-> (counts[c] * Scale) \div sum]

\* counts / counts.sum(axis=1) for one row, nan replaced by 1.0 / len(labels)
normalize(counts, sum) ==
    IF sum = 0
    \* 0 / 0 is nan
    THEN [c \in 1..cardinality |-> Scale \div cardinality]
    ELSE [c \in 1..cardinality |-> (counts[c] * Scale) \div sum]

row_counts(row) == [c \in 1..cardinality |-> count_nonzero(row, label2int(labels[c]))]

normalized_counts(counts) == normalize(counts, SeqSum(counts))

\* one row of _compute_single_label_probs
single_label_probs_row(row) == normalized_counts(row_counts(row))

RECURSIVE MatrixSum(_)
MatrixSum(counts) == IF counts = <<>> THEN 0 ELSE SeqSum(Head(counts)) + MatrixSum(Tail(counts))

\* compute_single_label_probs, as if the counts were divided by counts.sum(), the sum
\* over the whole matrix, and not by counts.sum(axis=1)
compute_single_label_probs_whole_sum(wl) ==
    [i \in 1..Len(wl) |->
        normalize(row_counts(wl[i]), MatrixSum([j \in 1..Len(wl) |-> row_counts(wl[j])]))]

\* _compute_single_label_probs
compute_single_label_probs(wl) == [i \in 1..Len(wl) |-> single_label_probs_row(wl[i])]

\* within_tolerance, as if the test were <= 1.0e-8
within_tolerance_inclusive(prob, max) ==
    [c \in 1..Len(prob) |-> BelowTolerance(Abs(max - prob[c]) - 1)]

within_tolerance(prob, max) == [c \in 1..Len(prob) |-> BelowTolerance(Abs(max - prob[c]))]

\* np.abs(prob.max() - prob) < 1.0e-8
is_max_row(prob) == within_tolerance(prob, SeqMax(prob))

ZeroBased(positions) == [j \in 1..Len(positions) |-> positions[j] - 1]

\* np.nonzero(...)[0]: the 0-based label indices within tolerance of the maximum
equal_prob_idx_of(prob) == ZeroBased(Where(is_max_row(prob), 1))

\* the loop over equal_prob_idx that moves the probabilities of a tied row
tie_break_adjust(prob, equal_prob_idx, random_idx) ==
    [c \in 1..Len(prob) |->
        IF ~InSeq(c - 1, equal_prob_idx) THEN prob[c]
        ELSE IF c - 1 = random_idx
             THEN prob[c] + PROBABILITY_INCREASE_ON_TIE_BREAK
             ELSE prob[c] - PROBABILITY_INCREASE_ON_TIE_BREAK \div (Len(equal_prob_idx) - 1)]

\* [(labels[idx], prob[idx]) for idx in order]
label_prob_pairs(prob, order) ==
    [j \in 1..Len(order) |-> <<labels[order[j] + 1], prob[order[j] + 1]>>]

\* [(labels[idx], prob[idx]) for idx in np.argsort(prob)[::-1]]
sorted_prediction(prob, build) == label_prob_pairs(prob, Reverse(argsort(prob, build)))

\* with_prediction, as if the fields were set on rec itself and rec appended
with_prediction_in_place(rec, pred_for_rec, prediction_agent) ==
    [rec EXCEPT !.prediction = pred_for_rec, !.prediction_agent = prediction_agent]

\* rec.copy(deep=True), a new object, with prediction and prediction_agent set
with_prediction(rec, pred_for_rec, prediction_agent) ==
    [rec EXCEPT !.object = [@ EXCEPT !.copied = @ + 1],
                !.prediction = pred_for_rec, !.prediction_agent = prediction_agent]

\* skip_record, as if the test lacked its "not"
skip_record_not_dropped(include_abstentions, tie, tie_break_policy) ==
    include_abstentions /\ (tie /\ tie_break_policy = "abstain")

\* skip_record, as if include_abstentions were not looked at
skip_record_ignores_flag(include_abstentions, tie, tie_break_policy) ==
    tie /\ tie_break_policy = "abstain"

\* "maybe skip record": the test that drops a tied row
skip_record(include_abstentions, tie, tie_break_policy) ==
    ~include_abstentions /\ (tie /\ tie_break_policy = "abstain")

\* the body of the loop of _make_single_label_records once equal_prob_idx is known
single_label_resolve(i, prob, rec, include_abstentions, prediction_agent, tie_break_policy, build, equal_prob_idx) ==
    LET tie == Len(equal_prob_idx) > 1
        random_idx == Sha1Index(i, Len(equal_prob_idx))
    IN  IF skip_record(include_abstentions, tie, tie_break_policy)
        THEN [kind |-> "continue", rec |-> rec]
        ELSE IF ~tie
        THEN [kind |-> "append",
              rec |-> with_prediction(rec, sorted_prediction(prob, build), prediction_agent)]
        ELSE IF tie_break_policy = "abstain"
        THEN [kind |-> "append", rec |-> with_prediction(rec, None, prediction_agent)]
        ELSE IF tie_break_policy = "random"
        THEN [kind |-> "append",
              rec |-> with_prediction(
                  rec,
                  sorted_prediction(tie_break_adjust(prob, equal_prob_idx, random_idx), build),
                  prediction_agent)]
        ELSE [kind |-> "raise", rec |-> rec]

\* one pass of the loop of _make_single_label_records, for row index i
single_label_step(i, prob, rec, include_abstentions, prediction_agent, tie_break_policy, build) ==
    single_label_resolve(i, prob, rec, include_abstentions, prediction_agent,
                         tie_break_policy, build, equal_prob_idx_of(prob))

RECURSIVE Appended(_, _)
Appended(steps, j) ==
    IF j > Len(steps) THEN <<>>
    ELSE (IF steps[j].kind = "append" THEN <<steps[j].rec>> ELSE <<>>)
         \o Appended(steps, j + 1)

\* the records appended by the passes before the first pass that raised
RECURSIVE AppendedBeforeRaise(_, _)
AppendedBeforeRaise(steps, j) ==
    IF j > Len(steps) \/ steps[j].kind = "raise" THEN <<>>
    ELSE (IF steps[j].kind = "append" THEN <<steps[j].rec>> ELSE <<>>)
         \o AppendedBeforeRaise(steps, j + 1)

\* loop_outcome, as if a pass that cannot go on returned the records appended so far
loop_outcome_partial(steps) ==
    IF \E j \in DOMAIN steps : steps[j].kind = "raise"
    THEN [raised |-> "NotImplementedError", value |-> AppendedBeforeRaise(steps, 1)]
    ELSE [raised |-> "", value |-> Appended(steps, 1)]

\* records_with_prediction after the loop, unless a pass raised
loop_outcome(steps) ==
    IF \E j \in DOMAIN steps : steps[j].kind = "raise"
    THEN [raised |-> "NotImplementedError", value |-> <<>>]
    ELSE [raised |-> "", value |-> Appended(steps, 1)]

\* _make_single_label_records, as if the rows were gone through from the last
make_single_label_records_backwards(probabilities, recs, include_abstentions, prediction_agent, tie_break_policy, build) ==
    loop_outcome([j \in 1..Len(recs) |->
                    single_label_step(Len(recs) - j, probabilities[Len(recs) - j + 1],
                                      recs[Len(recs) - j + 1], include_abstentions,
                                      prediction_agent, tie_break_policy, build)])

\* _make_single_label_records
make_single_label_records(probabilities, recs, include_abstentions, prediction_agent, tie_break_policy, build) ==
    loop_outcome([j \in 1..Len(recs) |->
                    single_label_step(j - 1, probabilities[j], recs[j], include_abstentions,
                                      prediction_agent, tie_break_policy, build)])

-----------------------------------------------------------------------------
(* MajorityVoter, multi-label *)

\* multi_label_counts, as if the abstentions were summed as they are
multi_label_counts_raw(row) ==
    [c \in 1..cardinality |-> SeqSum([r \in 1..Len(row) |-> row[r][c]])]

\* np.where(wl_matrix == -1, 0, wl_matrix).sum(axis=1) for one record
multi_label_counts(row) ==
    [c \in 1..cardinality |->
        SeqSum([r \in 1..Len(row) |-> IF row[r][c] = -1 THEN 0 ELSE row[r][c]])]

\* wl_matrix.sum(axis=1).sum(axis=1) for one record
multi_label_total(row) == SeqSum([r \in 1..Len(row) |-> SeqSum(row[r])])

\* multi_label_probs, as if a record with a negative sum were fully abstained
multi_label_probs_negative_sum(counts, total) ==
    IF total < 0
    THEN [c \in 1..cardinality |-> NaN]
    ELSE [c \in 1..cardinality |-> IF counts[c] > 0 THEN Scale ELSE 0]

\* probabilities, and the rows of all_rules_abstained set to nan
multi_label_probs(counts, total) ==
    IF total = -1 * cardinality * Len(rules)
    THEN [c \in 1..cardinality |-> NaN]
    ELSE [c \in 1..cardinality |-> IF counts[c] > 0 THEN Scale ELSE 0]

\* one row of _compute_multi_label_probs; a row of wl is one vector per rule
multi_label_probs_row(row) == multi_label_probs(multi_label_counts(row), multi_label_total(row))

compute_multi_label_probs(wl) == [i \in 1..Len(wl) |-> multi_label_probs_row(wl[i])]

\* np.isnan(prob).all()
all_nan(prob) == \A c \in DOMAIN prob : prob[c] = NaN

\* multi_label_step, as if a fully abstained record were skipped whatever the flag
multi_label_step_always_skips(prob, rec, include_abstentions, prediction_agent, build) ==
    IF all_nan(prob)
    THEN [kind |-> "continue", rec |-> rec]
    ELSE [kind |-> "append",
          rec |-> with_prediction(rec, sorted_prediction(prob, build), prediction_agent)]

\* one pass of the loop of _make_multi_label_records
multi_label_step(prob, rec, include_abstentions, prediction_agent, build) ==
    IF ~include_abstentions /\ all_nan(prob)
    THEN [kind |-> "continue", rec |-> rec]
    ELSE [kind |-> "append",
          rec |-> with_prediction(
              rec,
              IF all_nan(prob) THEN None ELSE sorted_prediction(prob, build),
              prediction_agent)]

\* _make_multi_label_records
make_multi_label_records(probabilities, recs, include_abstentions, prediction_agent, build) ==
    loop_outcome([j \in 1..Len(recs) |->
                    multi_label_step(probabilities[j], recs[j], include_abstentions,
                                     prediction_agent, build)])

-----------------------------------------------------------------------------
(* MajorityVoter.score *)

\* without_tied_rows, as if only the predictions were filtered
without_tied_predictions(prediction, annotation_idx, is_tie) ==
    [raised |-> "",
     annotation |-> annotation_idx,
     prediction |-> Masked(prediction, Negated(is_tie))]

\* prediction[~is_tie], annotation[~is_tie]
without_tied_rows(prediction, annotation_idx, is_tie) ==
    [raised |-> "",
     annotation |-> Masked(annotation_idx, Negated(is_tie)),
     prediction |-> Masked(prediction, Negated(is_tie))]

\* random_tie_member, as if random_idx itself were the class
random_idx_as_member(is_max_i, i) == Sha1Index(i, CountTrue(is_max_i))

\* equal_prob_idx[random_idx] for the tied row i, whose row of is_max is is_max_i
random_tie_member(is_max_i, i) ==
    ZeroBased(Where(is_max_i, 1))[Sha1Index(i, CountTrue(is_max_i)) + 1]

\* the branches of _score_single_label on is_tie and the policy
resolve_score_ties(probabilities, tie_break_policy, is_max, is_tie, prediction, annotation_idx) ==
    IF ~\E i \in DOMAIN is_tie : is_tie[i]
    THEN [raised |-> "", annotation |-> annotation_idx, prediction |-> prediction]
    ELSE IF tie_break_policy = "abstain"
    THEN without_tied_rows(prediction, annotation_idx, is_tie)
    ELSE IF tie_break_policy = "random"
    THEN [raised |-> "",
          annotation |-> annotation_idx,
          prediction |->
              [i \in 1..Len(probabilities) |->
                  IF is_tie[i] THEN random_tie_member(is_max[i], i - 1) ELSE prediction[i]]]
    ELSE [raised |-> "NotImplementedError", annotation |-> <<>>, prediction |-> <<>>]

score_with_is_max(probabilities, tie_break_policy, is_max) ==
    resolve_score_ties(
        probabilities, tie_break_policy, is_max,
        [i \in 1..Len(probabilities) |-> CountTrue(is_max[i]) > 1],
        [i \in 1..Len(probabilities) |-> argmax(is_max[i])],
        [j \in 1..Len(annotation_array) |-> labels_index(annotation_array[j])])

\* _score_single_label: the annotation and the prediction array, or an error
score_single_label(probabilities, tie_break_policy) ==
    score_with_is_max(probabilities, tie_break_policy,
                      [i \in 1..Len(probabilities) |-> is_max_row(probabilities[i])])

\* score_multi_label, as if the annotations were not filtered by ~is_abstain
score_multi_label_all_annotations(probabilities) ==
    LET prediction == [i \in 1..Len(probabilities) |->
                         [c \in 1..Len(probabilities[i]) |->
                             IF probabilities[i][c] # NaN /\ 2 * probabilities[i][c] > Scale
                             THEN 1 ELSE 0]]
        is_abstain == [i \in 1..Len(probabilities) |-> all_nan(probabilities[i])]
    IN  [raised |-> "",
         annotation |-> annotation_array,
         prediction |-> Masked(prediction, Negated(is_abstain))]

\* _score_multi_label
score_multi_label(probabilities) ==
    LET prediction == [i \in 1..Len(probabilities) |->
                         [c \in 1..Len(probabilities[i]) |->
                             IF probabilities[i][c] # NaN /\ 2 * probabilities[i][c] > Scale
                             THEN 1 ELSE 0]]
        is_abstain == [i \in 1..Len(probabilities) |-> all_nan(probabilities[i])]
    IN  [raised |-> "",
         annotation |-> Masked(annotation_array, Negated(is_abstain)),
         prediction |-> Masked(prediction, Negated(is_abstain))]

NoReport == [annotation |-> <<>>, prediction |-> <<>>, target_names |-> <<>>]

\* the end of score, single-label: target_names and the call of classification_report
\* single_label_report, as if a report were made of arrays without a row
single_label_report_of_no_row(scored) ==
    IF scored.raised # ""
    THEN [raised |-> scored.raised, report |-> NoReport]
    ELSE [raised |-> "",
          report |-> [annotation |-> scored.annotation,
                      prediction |-> scored.prediction,
                      target_names |-> <<IF scored.annotation = <<>> THEN <<>>
                                         ELSE SubSeq(labels, 1, SeqMax(scored.annotation) + 1)>>]]

single_label_report(scored) ==
    IF scored.raised # ""
    THEN [raised |-> scored.raised, report |-> NoReport]
    ELSE IF scored.annotation = <<>>
    \* annotation.max() of an array of size zero
    THEN [raised |-> "ValueError", report |-> NoReport]
    ELSE [raised |-> "",
          report |-> [annotation |-> scored.annotation,
                      prediction |-> scored.prediction,
                      \* a tuple holding one list
                      target_names |-> <<SubSeq(labels, 1, SeqMax(scored.annotation) + 1)>>]]

multi_label_report(scored) ==
    [raised |-> "",
     report |-> [annotation |-> scored.annotation,
                 prediction |-> scored.prediction,
                 target_names |-> labels]]

\* the body of score: what classification_report is called with, or an error
score(tie_break_policy) ==
    IF multi_label
    THEN multi_label_report(score_multi_label(compute_multi_label_probs(matrix("True"))))
    ELSE IF tie_break_policy \notin TieBreakPolicy
    \* TieBreakPolicy(tie_break_policy): _missing_
    THEN [raised |-> "ValueError", report |-> NoReport]
    ELSE IF matrix("True") = <<>>
    \* counts.sum(axis=1).reshape(len(counts), -1): numpy reshapes no array of size 0 to (0, -1)
    THEN [raised |-> "ValueError", report |-> NoReport]
    ELSE single_label_report(
             score_single_label(compute_single_label_probs(matrix("True")), tie_break_policy))

-----------------------------------------------------------------------------
(* MajorityVoter.predict *)

has_annotation_of(include_annotated_records) ==
    IF include_annotated_records THEN "None" ELSE "False"

\* predict, as if a string were handed on without TieBreakPolicy(tie_break_policy)
predict_unconverted(include_annotated_records, include_abstentions, prediction_agent, tie_break_policy) ==
    IF multi_label
    THEN make_multi_label_records(
             compute_multi_label_probs(matrix(has_annotation_of(include_annotated_records))),
             records_of(has_annotation_of(include_annotated_records)),
             include_abstentions, prediction_agent, numpy_build)
    ELSE IF matrix(has_annotation_of(include_annotated_records)) = <<>>
    THEN [raised |-> "ValueError", value |-> <<>>]
    ELSE make_single_label_records(
             compute_single_label_probs(matrix(has_annotation_of(include_annotated_records))),
             records_of(has_annotation_of(include_annotated_records)),
             include_abstentions, prediction_agent, tie_break_policy, numpy_build)

predict(include_annotated_records, include_abstentions, prediction_agent, tie_break_policy) ==
    IF multi_label
    THEN make_multi_label_records(
             compute_multi_label_probs(matrix(has_annotation_of(include_annotated_records))),
             records_of(has_annotation_of(include_annotated_records)),
             include_abstentions, prediction_agent, numpy_build)
    ELSE IF tie_break_policy \notin TieBreakPolicy
    \* TieBreakPolicy(tie_break_policy): _missing_
    THEN [raised |-> "ValueError", value |-> <<>>]
    ELSE IF matrix(has_annotation_of(include_annotated_records)) = <<>>
    \* counts.sum(axis=1).reshape(len(counts), -1): numpy reshapes no array of size 0 to (0, -1)
    THEN [raised |-> "ValueError", value |-> <<>>]
    ELSE make_single_label_records(
             compute_single_label_probs(matrix(has_annotation_of(include_annotated_records))),
             records_of(has_annotation_of(include_annotated_records)),
             include_abstentions, prediction_agent, tie_break_policy, numpy_build)

-----------------------------------------------------------------------------
(* The state machine: a label model over a dataset, and the calls on it *)

\* what a caller passes as tie_break_policy: a policy, or a string that names none
PolicyArguments == TieBreakPolicy \cup {"majority"}

PredictionAgents == {"MajorityVoter"}

Builds == {"scalar", "simd"}

Votes == -1..(cardinality - 1)

\* a rule's votes on one record, multi-label: it abstains, or it votes per label
RuleVectors == {[c \in 1..cardinality |-> -1]} \cup [1..cardinality -> {0, 1}]

\* the records of the dataset: the caller's objects (object: which object a record
\* is, the one of the dataset or a copy made of it), not yet predicted
NewRecords(n) ==
    [i \in 1..n |-> [object |-> [source |-> i - 1, copied |-> 0], id |-> i - 1,
                     prediction |-> None, prediction_agent |-> "None"]]

NoArguments ==
    [include_annotated_records |-> FALSE, include_abstentions |-> FALSE,
     prediction_agent |-> "", tie_break_policy |-> ""]

\* no search engine: the label models never touch one
NoElasticsearch == [documents |-> {}, indices |-> {}, requests |-> <<>>]

NoCall == [op |-> "none", arguments |-> NoArguments, raised |-> "",
           returned |-> <<>>, report |-> NoReport]

\* a single-label dataset without annotations (a dataset holds a record at least)
Init ==
    /\ multi_label = FALSE
    /\ \E n \in 1..MaxRecords :
        /\ wl_matrix \in [1..n -> [1..NumRules -> Votes]]
        /\ annotation = [i \in 1..n |-> -1]
        /\ records = NewRecords(n)
    /\ numpy_build \in Builds
    /\ result = NoCall
    /\ models = <<>>
    /\ es = NoElasticsearch

\* a single-label dataset whose records are all annotated; score sorts nothing
InitAnnotated ==
    /\ multi_label = FALSE
    /\ \E n \in 1..MaxRecords :
        /\ wl_matrix \in [1..n -> [1..NumRules -> Votes]]
        /\ annotation \in [1..n -> 0..(cardinality - 1)]
        /\ records = NewRecords(n)
    /\ numpy_build = "scalar"
    /\ result = NoCall
    /\ models = <<>>
    /\ es = NoElasticsearch

\* a multi-label dataset without annotations
InitMulti ==
    /\ multi_label = TRUE
    /\ \E n \in 1..MaxMultiRecords :
        /\ wl_matrix \in [1..n -> [1..NumRules -> RuleVectors]]
        /\ annotation = [i \in 1..n |-> [c \in 1..cardinality |-> -1]]
        /\ records = NewRecords(n)
    /\ numpy_build \in Builds
    /\ result = NoCall
    /\ models = <<>>
    /\ es = NoElasticsearch

\* Fit, as if fit returned without doing anything
FitSilently ==
    /\ result = NoCall
    /\ result' = [op |-> "fit", arguments |-> NoArguments, raised |-> "",
                  returned |-> <<>>, report |-> NoReport]
    /\ UNCHANGED <<multi_label, wl_matrix, annotation, records, numpy_build, models, es>>

\* The caller holds at most one outcome: a call is made once the outcome of the
\* one before it was taken (Discard).  No call reads result.
Fit ==
    /\ result = NoCall
    /\ result' = [op |-> "fit", arguments |-> NoArguments, raised |-> "NotImplementedError",
                  returned |-> <<>>, report |-> NoReport]
    /\ UNCHANGED <<multi_label, wl_matrix, annotation, records, numpy_build, models, es>>

PredictResult(arguments, out) ==
    [op |-> "predict", arguments |-> arguments, raised |-> out.raised,
     returned |-> out.value, report |-> NoReport]

\* the caller's records after a call that has set the fields of the objects written:
\* an object written is one of the caller's unless it is a copy
RecordsAfter(recs, written) ==
    [i \in 1..Len(recs) |->
        IF \E j \in DOMAIN written : written[j].object = recs[i].object
        THEN written[CHOOSE j \in DOMAIN written : written[j].object = recs[i].object]
        ELSE recs[i]]

\* a call that makes records ends: its outcome, and the records as it leaves them
RecordsMade(op, arguments, out) ==
    /\ result' = [PredictResult(arguments, out) EXCEPT !.op = op]
    /\ records' = RecordsAfter(records, out.value)

\* predict, called with a tie_break_policy among policies
PredictWith(policies) ==
    \E include_annotated_records \in BOOLEAN, include_abstentions \in BOOLEAN,
       prediction_agent \in PredictionAgents, tie_break_policy \in policies :
        /\ result = NoCall
        /\ RecordsMade("predict",
                       [include_annotated_records |-> include_annotated_records,
                        include_abstentions |-> include_abstentions,
                        prediction_agent |-> prediction_agent,
                        tie_break_policy |-> tie_break_policy],
                       predict(include_annotated_records, include_abstentions,
                               prediction_agent, tie_break_policy))
        /\ UNCHANGED <<multi_label, wl_matrix, annotation, numpy_build, models, es>>

Predict == PredictWith(PolicyArguments)

ScoreResult(arguments, out) ==
    [op |-> "score", arguments |-> arguments, raised |-> out.raised,
     returned |-> <<>>, report |-> out.report]

\* score, called with a tie_break_policy among policies
ScoreWith(policies) ==
    \E tie_break_policy \in policies :
        /\ result = NoCall
        /\ result' = ScoreResult([NoArguments EXCEPT !.tie_break_policy = tie_break_policy],
                                 score(tie_break_policy))
        /\ UNCHANGED <<multi_label, wl_matrix, annotation, records, numpy_build, models, es>>

Score == ScoreWith(PolicyArguments)

\* the caller drops the outcome of the last call; the label model keeps nothing of it
Discard ==
    /\ result # NoCall
    /\ result' = NoCall
    /\ UNCHANGED <<multi_label, wl_matrix, annotation, records, numpy_build, models, es>>

Next == Fit \/ Predict \/ Score \/ Discard

Spec == Init /\ [][Next]_vars

NextScore == Fit \/ Score \/ Discard

SpecScore == InitAnnotated /\ [][NextScore]_vars

SpecMulti == InitMulti /\ [][Next]_vars

PredictRandom == PredictWith({"random"})

ScoreRandom == ScoreWith({"random"})

\* the caller repeats the predict call it made last, with the same arguments
PredictAgain ==
    /\ result.op = "predict"
    /\ RecordsMade("predict", result.arguments,
                   predict(result.arguments.include_annotated_records,
                           result.arguments.include_abstentions,
                           result.arguments.prediction_agent,
                           result.arguments.tie_break_policy))
    /\ UNCHANGED <<multi_label, wl_matrix, annotation, numpy_build, models, es>>

\* the caller repeats the score call it made last, with the same arguments
ScoreAgain ==
    /\ result.op = "score"
    /\ result' = ScoreResult(result.arguments, score(result.arguments.tie_break_policy))
    /\ UNCHANGED <<multi_label, wl_matrix, annotation, records, numpy_build, models, es>>

NextRepeat == PredictRandom \/ ScoreRandom \/ PredictAgain \/ ScoreAgain \/ Discard

PredictValid == PredictWith({"abstain", "random"})

NextPredict == PredictValid \/ Discard

\* predict calls whose policy is one the code implements
SpecPredict == Init /\ [][NextPredict]_vars

\* a rule's votes on one record of a scored dataset: it abstains, or it votes the
\* first label only, or the second label only
ScoredRuleVectors ==
    {[c \in 1..cardinality |-> -1],
     [c \in 1..cardinality |-> IF c = 1 THEN 1 ELSE 0],
     [c \in 1..cardinality |-> IF c = 2 THEN 1 ELSE 0]}

\* the annotation of a record of a scored dataset: none, the first label, or all
\* labels but the first
ScoredAnnotations ==
    {[c \in 1..cardinality |-> -1],
     [c \in 1..cardinality |-> IF c = 1 THEN 1 ELSE 0],
     [c \in 1..cardinality |-> IF c = 1 THEN 0 ELSE 1]}

\* a multi-label dataset with annotations
InitMultiAnnotated ==
    /\ multi_label = TRUE
    /\ \E n \in 1..MaxScoredMultiRecords :
        /\ wl_matrix \in [1..n -> [1..NumRules -> ScoredRuleVectors]]
        /\ annotation \in [1..n -> ScoredAnnotations]
        /\ records = NewRecords(n)
    /\ numpy_build = "scalar"
    /\ result = NoCall
    /\ models = <<>>
    /\ es = NoElasticsearch

SpecMultiScore == InitMultiAnnotated /\ [][NextScore]_vars

NextFrame == Predict \/ Discard

PredictUnknown == PredictWith(PolicyArguments \ TieBreakPolicy)

ScoreUnknown == ScoreWith(PolicyArguments \ TieBreakPolicy)

NextUnknown == PredictUnknown \/ ScoreUnknown \/ Discard

\* calls whose tie_break_policy names no policy, on a single-label or a multi-label dataset
SpecUnknown == (Init \/ InitMulti) /\ [][NextUnknown]_vars

\* predict calls on a single-label or a multi-label dataset
SpecFrame == (Init \/ InitMulti) /\ [][NextFrame]_vars

\* a single-label dataset in which a record has no annotation or the first label's
InitMixed ==
    /\ multi_label = FALSE
    /\ \E n \in 1..MaxRecords :
        /\ wl_matrix \in [1..n -> [1..NumRules -> Votes]]
        /\ annotation \in [1..n -> {-1, 0}]
        /\ records = NewRecords(n)
    /\ numpy_build = "scalar"
    /\ result = NoCall
    /\ models = <<>>
    /\ es = NoElasticsearch

\* calls under the random policy, and their repetition
SpecRepeat == InitMixed /\ [][NextRepeat]_vars

\* the entries of a multi-label weak label matrix
TensorEntries == {-1, 0, 1}

\* any multi-label weak label matrix: _compute_multi_label_probs takes an array
InitTensor ==
    /\ multi_label = TRUE
    /\ \E n \in 1..MaxTensorRecords :
        /\ wl_matrix \in [1..n -> [1..NumRules -> [1..cardinality -> TensorEntries]]]
        /\ annotation = [i \in 1..n |-> [c \in 1..cardinality |-> -1]]
        /\ records = NewRecords(n)
    /\ numpy_build = "scalar"
    /\ result = NoCall
    /\ models = <<>>
    /\ es = NoElasticsearch

\* self._compute_multi_label_probs(wl_matrix): returns the probabilities
ComputeMultiLabelProbs ==
    /\ result = NoCall
    /\ result' = [op |-> "_compute_multi_label_probs", arguments |-> NoArguments,
                  raised |-> "", returned |-> compute_multi_label_probs(wl_matrix),
                  report |-> NoReport]
    /\ UNCHANGED <<multi_label, wl_matrix, annotation, records, numpy_build, models, es>>

SpecMultiProbs == InitTensor /\ [][ComputeMultiLabelProbs]_vars

\* 1.0e-8 in units
Tolerance == Scale \div 100000000

\* the entries of a probability row given to the helpers: a half, a value less than
\* the tolerance below it, and a value the tolerance below it
ProbabilityEntries ==
    {Scale \div 2, Scale \div 2 - (Tolerance - 1), Scale \div 2 - Tolerance}

\* a single-label dataset whose records are all annotated and whose rules all
\* abstain; the helpers below read its records, labels and annotations only
InitHelpers ==
    /\ multi_label = FALSE
    /\ \E n \in 1..MaxProbabilityRows :
        /\ wl_matrix = [i \in 1..n |-> [r \in 1..NumRules |-> -1]]
        /\ annotation \in [1..n -> 0..(cardinality - 1)]
        /\ records = NewRecords(n)
    /\ numpy_build = "scalar"
    /\ result = NoCall
    /\ models = <<>>
    /\ es = NoElasticsearch

HelperArguments(probabilities, include_abstentions, prediction_agent, tie_break_policy) ==
    [probabilities |-> probabilities, include_abstentions |-> include_abstentions,
     prediction_agent |-> prediction_agent, tie_break_policy |-> tie_break_policy]

\* self._make_single_label_records(probabilities, records, ...) on any probabilities
MakeSingleLabelRecords ==
    \E probabilities \in [1..Len(records) -> [1..cardinality -> ProbabilityEntries]],
       include_abstentions \in BOOLEAN, tie_break_policy \in TieBreakPolicy :
        /\ result = NoCall
        /\ RecordsMade("_make_single_label_records",
                       HelperArguments(probabilities, include_abstentions,
                                       "MajorityVoter", tie_break_policy),
                       make_single_label_records(probabilities, records_of("None"),
                                                 include_abstentions, "MajorityVoter",
                                                 tie_break_policy, numpy_build))
        /\ UNCHANGED <<multi_label, wl_matrix, annotation, numpy_build, models, es>>

ScoredArrays(out) == [annotation |-> out.annotation, prediction |-> out.prediction, target_names |-> <<>>]

\* self._score_single_label(probabilities, tie_break_policy) on any probabilities
ScoreSingleLabel ==
    \E probabilities \in [1..Len(records) -> [1..cardinality -> ProbabilityEntries]],
       tie_break_policy \in TieBreakPolicy :
        /\ result = NoCall
        /\ result' = [op |-> "_score_single_label",
                      arguments |-> HelperArguments(probabilities, FALSE, "", tie_break_policy),
                      raised |-> score_single_label(probabilities, tie_break_policy).raised,
                      returned |-> <<>>,
                      report |-> ScoredArrays(score_single_label(probabilities, tie_break_policy))]
        /\ UNCHANGED <<multi_label, wl_matrix, annotation, records, numpy_build, models, es>>

NextHelpers == MakeSingleLabelRecords \/ ScoreSingleLabel \/ Discard

SpecHelpers == InitHelpers /\ [][NextHelpers]_vars

-----------------------------------------------------------------------------
(* The properties.  They are stated on the votes themselves: the vote counts  *)
(* of a row, its most voted labels, and the place of a record in the input.   *)

LabelIndices == 0..(cardinality - 1)

\* the number of rules that vote label index c in a row
VotesFor(row, c) == Cardinality({r \in DOMAIN row : row[r] = c})

\* the number of rules that do not abstain in a row
NonAbstaining(row) == Cardinality({r \in DOMAIN row : row[r] # -1})

AllAbstain(row) == NonAbstaining(row) = 0

\* the tie set of a row: the label indices with the most votes
TopLabels(row) == {c \in LabelIndices : \A d \in LabelIndices : VotesFor(row, d) <= VotesFor(row, c)}

TiedRow(row) == Cardinality(TopLabels(row)) > 1

\* the member at place j (0-based) of a set of numbers in ascending order
Nth(S, j) == CHOOSE x \in S : Cardinality({y \in S : y < x}) = j

\* the hash-selected member of the tie set of the row at row index i
HashedMember(row, i) == Nth(TopLabels(row), Sha1Index(i, Cardinality(TopLabels(row))))

\* the probability a prediction gives to label index c
ProbIn(prediction, c) ==
    prediction[CHOOSE j \in DOMAIN prediction : prediction[j][1] = labels[c + 1]][2]

\* a prediction whose first probability is strictly the greatest
StrictTop(prediction) ==
    /\ prediction # None
    /\ \A j \in 2..Len(prediction) : prediction[1][2] > prediction[j][2]

\* a single-label predict call has returned records
PredictOk == ~multi_label /\ result.op = "predict" /\ result.raised = ""

PredictPolicy == result.arguments.tie_break_policy

\* the matrix and the records the last predict call worked on
InputMatrix == matrix(has_annotation_of(result.arguments.include_annotated_records))

InputRecords == records_of(has_annotation_of(result.arguments.include_annotated_records))

\* the places in the returned list of the records made from the row at row index i
EmittedFor(i) == {j \in DOMAIN result.returned : result.returned[j].id = InputRecords[i + 1].id}

RowIndices == {i - 1 : i \in DOMAIN InputMatrix}

\* a single-label score call has reached classification_report
ScoreOk == ~multi_label /\ result.op = "score" /\ result.raised = ""

\* the row indices of the annotated matrix
ScoredRows == {i - 1 : i \in DOMAIN matrix("True")}

UntiedScoredRows == {i \in ScoredRows : ~TiedRow(matrix("True")[i + 1])}

\* C1: after a single-label predict, every row with a non-abstaining vote has, for
\* each label, the probability (votes for the label) / (non-abstaining votes) and
\* its probabilities sum to 1; an untied row is emitted with these probabilities.
C1_ProbabilityIsVoteShare ==
    PredictOk =>
        \A i \in RowIndices :
            NonAbstaining(InputMatrix[i + 1]) > 0 =>
                /\ \A c \in LabelIndices :
                       single_label_probs_row(InputMatrix[i + 1])[c + 1]
                           * NonAbstaining(InputMatrix[i + 1])
                       = VotesFor(InputMatrix[i + 1], c) * Scale
                /\ SeqSum(single_label_probs_row(InputMatrix[i + 1])) = Scale
                /\ ~TiedRow(InputMatrix[i + 1]) =>
                       \A j \in EmittedFor(i), c \in LabelIndices :
                           /\ result.returned[j].prediction # None
                           /\ ProbIn(result.returned[j].prediction, c)
                                  * NonAbstaining(InputMatrix[i + 1])
                              = VotesFor(InputMatrix[i + 1], c) * Scale

\* a row in which one rule votes and another abstains was emitted
C1_Witness ==
    /\ PredictOk
    /\ \E i \in RowIndices :
        /\ NonAbstaining(InputMatrix[i + 1]) > 0
        /\ NonAbstaining(InputMatrix[i + 1]) < NumRules
        /\ \E j \in EmittedFor(i) : result.returned[j].prediction # None

\* C2: a row in which every rule abstains has the probability 1/k for each of the k
\* labels, is a k-way tie, and is handled as a tie: dropped (abstain, abstentions
\* excluded), emitted with prediction None (abstain, abstentions included), or
\* emitted with a strictly greatest winner (random).
C2_AllAbstainIsUniformTie ==
    PredictOk =>
        \A i \in RowIndices :
            AllAbstain(InputMatrix[i + 1]) =>
                /\ \A c \in LabelIndices :
                       single_label_probs_row(InputMatrix[i + 1])[c + 1] * cardinality = Scale
                /\ Len(equal_prob_idx_of(single_label_probs_row(InputMatrix[i + 1]))) = cardinality
                /\ (PredictPolicy = "abstain" /\ ~result.arguments.include_abstentions)
                       => EmittedFor(i) = {}
                /\ (PredictPolicy = "abstain" /\ result.arguments.include_abstentions)
                       => /\ Cardinality(EmittedFor(i)) = 1
                          /\ \A j \in EmittedFor(i) : result.returned[j].prediction = None
                /\ PredictPolicy = "random"
                       => /\ Cardinality(EmittedFor(i)) = 1
                          /\ \A j \in EmittedFor(i) : StrictTop(result.returned[j].prediction)

\* an all-abstain row was resolved to a winner under the random policy
C2_Witness ==
    /\ PredictOk
    /\ PredictPolicy = "random"
    /\ \E i \in RowIndices :
        /\ AllAbstain(InputMatrix[i + 1])
        /\ \E j \in EmittedFor(i) : StrictTop(result.returned[j].prediction)

\* C3: with the abstain policy and abstentions excluded, every returned record comes
\* from a row whose tie set has one member, and its prediction is not None and has a
\* strictly greatest first probability.
C3_AbstainReturnsNoTiedRow ==
    (PredictOk /\ PredictPolicy = "abstain" /\ ~result.arguments.include_abstentions) =>
        /\ \A j \in DOMAIN result.returned : StrictTop(result.returned[j].prediction)
        /\ \A i \in RowIndices :
               EmittedFor(i) # {} => Cardinality(TopLabels(InputMatrix[i + 1])) = 1

\* a tied row was dropped and an untied row of the same matrix was returned
C3_Witness ==
    /\ PredictOk
    /\ PredictPolicy = "abstain"
    /\ ~result.arguments.include_abstentions
    /\ \E i \in RowIndices : TiedRow(InputMatrix[i + 1]) /\ EmittedFor(i) = {}
    /\ \E i \in RowIndices : ~TiedRow(InputMatrix[i + 1]) /\ EmittedFor(i) # {}

\* C4: under the random policy, the record of a tied row at row index i with tie set
\* T of m members gives T[H(i) mod m] its probability plus 1e-4, every other member of
\* T its probability minus 1e-4/(m-1), and the labels outside T their probability.
C4_WinnerIsHashedMember ==
    (PredictOk /\ PredictPolicy = "random") =>
        \A i \in RowIndices :
            TiedRow(InputMatrix[i + 1]) =>
                \A j \in EmittedFor(i), c \in LabelIndices :
                    /\ result.returned[j].prediction # None
                    /\ ProbIn(result.returned[j].prediction, c) =
                           IF c \notin TopLabels(InputMatrix[i + 1])
                           THEN single_label_probs_row(InputMatrix[i + 1])[c + 1]
                           ELSE IF c = HashedMember(InputMatrix[i + 1], i)
                           THEN single_label_probs_row(InputMatrix[i + 1])[c + 1]
                                    + PROBABILITY_INCREASE_ON_TIE_BREAK
                           ELSE single_label_probs_row(InputMatrix[i + 1])[c + 1]
                                    - PROBABILITY_INCREASE_ON_TIE_BREAK
                                          \div (Cardinality(TopLabels(InputMatrix[i + 1])) - 1)

\* C5: under the random policy, the record of a tied row has a prediction that is not
\* None and whose first probability is strictly greater than every other.
C5_RandomLeavesNoTie ==
    (PredictOk /\ PredictPolicy = "random") =>
        \A i \in RowIndices :
            TiedRow(InputMatrix[i + 1]) =>
                \A j \in EmittedFor(i) : StrictTop(result.returned[j].prediction)

\* C6: every prediction that is not None, single-label or multi-label, lists the
\* labels by descending probability, and labels of equal probability in the order
\* of the vocabulary.
C6_SortedWithVocabularyOrderOnTies ==
    (result.op = "predict" /\ result.raised = "") =>
        \A j \in DOMAIN result.returned :
            result.returned[j].prediction # None =>
                \A a, b \in DOMAIN result.returned[j].prediction :
                    a < b =>
                        \/ result.returned[j].prediction[a][2] > result.returned[j].prediction[b][2]
                        \/ /\ result.returned[j].prediction[a][2] = result.returned[j].prediction[b][2]
                           /\ label2int(result.returned[j].prediction[a][1])
                                  < label2int(result.returned[j].prediction[b][1])

\* C7: single-label predict and score called with the policy true-random fail with
\* the not-implemented error and return nothing, whatever the matrix.
C7_TrueRandomAlwaysFails ==
    (/\ ~multi_label
     /\ result.op \in {"predict", "score"}
     /\ result.arguments.tie_break_policy = "true-random") =>
        /\ result.raised = "NotImplementedError"
        /\ result.returned = <<>>
        /\ result.report = NoReport

\* C8: single-label score under the abstain policy gives classification_report the
\* annotations and the predictions of exactly the untied annotated rows, in their
\* order and row by row; their length is the annotated rows minus the tied ones.
C8_AbstainScoresUntiedRowsAligned ==
    (ScoreOk /\ result.arguments.tie_break_policy = "abstain") =>
        /\ Len(result.report.annotation) = Cardinality(UntiedScoredRows)
        /\ Len(result.report.prediction) = Cardinality(UntiedScoredRows)
        /\ Cardinality(UntiedScoredRows)
               = Cardinality(ScoredRows) - Cardinality(ScoredRows \ UntiedScoredRows)
        /\ \A j \in 1..Cardinality(UntiedScoredRows) :
               /\ result.report.annotation[j]
                      = annotation_array[Nth(UntiedScoredRows, j - 1) + 1]
               /\ TopLabels(matrix("True")[Nth(UntiedScoredRows, j - 1) + 1])
                      = {result.report.prediction[j]}

\* a tied row ahead of an untied row was removed from both arrays
C8_Witness ==
    /\ ScoreOk
    /\ result.arguments.tie_break_policy = "abstain"
    /\ Cardinality(ScoredRows) = 2
    /\ UntiedScoredRows = {1}
    /\ Len(result.report.annotation) = 1
    /\ result.report.annotation[1] # labels_index(annotation_array[1])

\* C9: single-label score under the random policy removes no row, keeps the two
\* arrays aligned by row, predicts the one most voted label of an untied row and
\* the tie-set member T[H(i) mod |T|] of a tied row at row index i.
C9_RandomScoresEveryRow ==
    (ScoreOk /\ result.arguments.tie_break_policy = "random") =>
        /\ Len(result.report.annotation) = Cardinality(ScoredRows)
        /\ Len(result.report.prediction) = Cardinality(ScoredRows)
        /\ \A i \in ScoredRows :
               /\ result.report.annotation[i + 1] = annotation_array[i + 1]
               /\ ~TiedRow(matrix("True")[i + 1])
                      => TopLabels(matrix("True")[i + 1]) = {result.report.prediction[i + 1]}
               /\ TiedRow(matrix("True")[i + 1])
                      => result.report.prediction[i + 1] = HashedMember(matrix("True")[i + 1], i)

\* a tied row whose hash-selected member is not the label index equal to the hash
C9_Witness ==
    /\ ScoreOk
    /\ result.arguments.tie_break_policy = "random"
    /\ \E i \in ScoredRows :
        /\ TiedRow(matrix("True")[i + 1])
        /\ HashedMember(matrix("True")[i + 1], i)
               # Sha1Index(i, Cardinality(TopLabels(matrix("True")[i + 1])))
        /\ result.report.prediction[i + 1] = HashedMember(matrix("True")[i + 1], i)

\* C10: score on weak labels without any annotated record fails with
\* MissingAnnotationError and returns no report.
C10_ScoreWithoutAnnotationsIsMissingAnnotation ==
    (result.op = "score" /\ annotation_array = <<>>) =>
        /\ result.raised = "MissingAnnotationError"
        /\ result.report = NoReport

\* the list of names held by target_names
TargetNameList == result.report.target_names[1]

\* the vocabulary labels that occur in the scored annotation array, in vocabulary order
ObservedLabels ==
    TakeAt(labels,
           Where([c \in 1..cardinality |-> InSeq(c - 1, result.report.annotation)], 1))

\* C11: the target label names that single-label score gives classification_report
\* are exactly the vocabulary labels that occur in the scored annotation array; a
\* label without support in that array is not among them.
C11_TargetNamesAreObservedLabels ==
    ScoreOk =>
        /\ TargetNameList = ObservedLabels
        /\ \A c \in LabelIndices :
               InSeq(labels[c + 1], TargetNameList) => InSeq(c, result.report.annotation)

\* _compute_multi_label_probs has returned the probabilities of wl_matrix
ProbsOk == result.op = "_compute_multi_label_probs"

\* every rule has -1 for every label of the record
FullyAbstained(row) == \A r \in DOMAIN row : \A c \in DOMAIN row[r] : row[r][c] = -1

\* C12: for a multi-label matrix with entries in {-1, 0, 1}, the probability row of
\* a record is all nan exactly when every entry of the record is -1, and the row of
\* a record with an entry other than -1 has no nan entry.
C12_NanRowIffFullyAbstained ==
    ProbsOk =>
        \A i \in DOMAIN wl_matrix :
            /\ all_nan(result.returned[i]) <=> FullyAbstained(wl_matrix[i])
            /\ ~FullyAbstained(wl_matrix[i])
                   => \A c \in DOMAIN result.returned[i] : result.returned[i][c] # NaN

\* a record with a single entry other than -1 has a row without nan
C12_Witness ==
    /\ ProbsOk
    /\ \E i \in DOMAIN wl_matrix :
        /\ Cardinality({<<r, c>> \in (1..NumRules) \X (1..cardinality) :
                            wl_matrix[i][r][c] # -1}) = 1
        /\ \A c \in DOMAIN result.returned[i] : result.returned[i][c] # NaN

\* C13: for a multi-label record that is not fully abstained, the probability of a
\* label is 1.0 when some rule gives the label a 1 and 0.0 otherwise; the -1
\* entries of the other rules change nothing.
C13_ProbabilityIsAnyVote ==
    ProbsOk =>
        \A i \in DOMAIN wl_matrix :
            ~FullyAbstained(wl_matrix[i]) =>
                \A c \in 1..cardinality :
                    result.returned[i][c] =
                        IF \E r \in DOMAIN wl_matrix[i] : wl_matrix[i][r][c] = 1
                        THEN Scale ELSE 0

\* a label has a 1 from one rule and a -1 from another, and probability 1.0
C13_Witness ==
    /\ ProbsOk
    /\ \E i \in DOMAIN wl_matrix, c \in 1..cardinality :
        /\ \E r \in DOMAIN wl_matrix[i] : wl_matrix[i][r][c] = 1
        /\ \E r \in DOMAIN wl_matrix[i] : wl_matrix[i][r][c] = -1
        /\ result.returned[i][c] = Scale

\* a multi-label predict call was made
MultiPredict == multi_label /\ result.op = "predict"

\* the probability row of the row at row index i of the input of the last predict call
MultiProbs(i) == multi_label_probs_row(InputMatrix[i + 1])

\* a prediction that lists every vocabulary label once, with its probability in prob
FullList(prediction, prob) ==
    /\ prediction # None
    /\ Len(prediction) = cardinality
    /\ \A c \in 1..cardinality :
           \E j \in DOMAIN prediction : prediction[j] = <<labels[c], prob[c]>>

\* C14: multi-label predict returns records whatever the tie-break policy argument;
\* the record of a row is left out exactly when the probability row is all nan and
\* include_abstentions is false, and every record returned has as its prediction
\* the full (label, probability) list over the vocabulary.
C14_EveryEmittedMultiRecordHasFullList ==
    MultiPredict =>
        /\ result.raised = ""
        /\ \A i \in RowIndices :
               /\ EmittedFor(i) = {}
                      <=> (all_nan(MultiProbs(i)) /\ ~result.arguments.include_abstentions)
               /\ \A j \in EmittedFor(i) :
                      FullList(result.returned[j].prediction, MultiProbs(i))

\* C14, amended: as C14, but the record returned for a row whose probability row is
\* all nan (include_abstentions true) has the prediction None; the record of any
\* other row has the full (label, probability) list over the vocabulary.
C14_AbstainedMultiRecordHasNone ==
    MultiPredict =>
        /\ result.raised = ""
        /\ \A i \in RowIndices :
               /\ EmittedFor(i) = {}
                      <=> (all_nan(MultiProbs(i)) /\ ~result.arguments.include_abstentions)
               /\ Cardinality(EmittedFor(i)) <= 1
               /\ \A j \in EmittedFor(i) :
                      IF all_nan(MultiProbs(i))
                      THEN result.returned[j].prediction = None
                      ELSE FullList(result.returned[j].prediction, MultiProbs(i))

\* a fully abstained record was returned, with prediction None, by a call whose
\* tie-break policy argument names no policy
C14_Witness ==
    /\ MultiPredict
    /\ result.arguments.tie_break_policy \notin TieBreakPolicy
    /\ result.arguments.include_abstentions
    /\ \E i \in RowIndices :
        /\ all_nan(MultiProbs(i))
        /\ \E j \in EmittedFor(i) : result.returned[j].prediction = None

\* a prediction whose probabilities never increase along the list
Descending(prediction) ==
    \A j \in 2..Len(prediction) : prediction[j - 1][2] >= prediction[j][2]

\* C15: single-label predict under the abstain policy returns, with
\* include_abstentions true, one record with prediction None for every tied row
\* (a row in which every rule abstains included), and none for a tied row with
\* include_abstentions false; every untied row gets one record whose prediction is
\* the full list of (label, probability) by descending probability.
C15_AbstainEmitsNoneForTiedRows ==
    (PredictOk /\ PredictPolicy = "abstain") =>
        \A i \in RowIndices :
            IF TiedRow(InputMatrix[i + 1])
            THEN IF result.arguments.include_abstentions
                 THEN /\ Cardinality(EmittedFor(i)) = 1
                      /\ \A j \in EmittedFor(i) : result.returned[j].prediction = None
                 ELSE EmittedFor(i) = {}
            ELSE /\ Cardinality(EmittedFor(i)) = 1
                 /\ \A j \in EmittedFor(i) :
                        /\ FullList(result.returned[j].prediction,
                                    single_label_probs_row(InputMatrix[i + 1]))
                        /\ Descending(result.returned[j].prediction)

\* with include_abstentions true, a row tied between two voted labels was returned
\* with None next to an untied row returned with its list
C15_Witness ==
    /\ PredictOk
    /\ PredictPolicy = "abstain"
    /\ result.arguments.include_abstentions
    /\ \E i \in RowIndices :
        /\ TiedRow(InputMatrix[i + 1])
        /\ ~AllAbstain(InputMatrix[i + 1])
        /\ \E j \in EmittedFor(i) : result.returned[j].prediction = None
    /\ \E i \in RowIndices :
        /\ ~TiedRow(InputMatrix[i + 1])
        /\ \E j \in EmittedFor(i) : result.returned[j].prediction # None

\* the probabilities given to the helper called last
HelperProbs == result.arguments.probabilities

HelperRows == {i - 1 : i \in DOMAIN HelperProbs}

\* the label indices whose probability is less than 1e-8 away from the greatest of the row
TieSet(prob) == {c \in LabelIndices : Abs(SeqMax(prob) - prob[c + 1]) < Tolerance}

TiedProbs(prob) == Cardinality(TieSet(prob)) > 1

UntiedHelperRows == {i \in HelperRows : ~TiedProbs(HelperProbs[i + 1])}

\* the places in the returned list of the records made from the row at row index i
EmittedAt(i) == {j \in DOMAIN result.returned : result.returned[j].id = records[i + 1].id}

\* C16: a label index is in the tie set of a row exactly when its probability is
\* less than 1e-8 away from the greatest of the row, and a row is tied exactly when
\* that set has more than one member; _make_single_label_records and
\* _score_single_label treat the same rows as tied and the same labels as members:
\* under abstain both leave out (or give None to) exactly the tied rows, under random
\* predict moves exactly the probabilities of the members of a tied row and score
\* predicts a member, and under true-random both fail exactly when a row is tied.
C16_TieTestIsToleranceOnMaximum ==
    /\ result.op \in {"_make_single_label_records", "_score_single_label"} =>
           (result.raised # "" <=>
                /\ result.arguments.tie_break_policy = "true-random"
                /\ \E i \in HelperRows : TiedProbs(HelperProbs[i + 1]))
    /\ (result.op = "_make_single_label_records" /\ result.raised = "") =>
           \A i \in HelperRows :
               /\ result.arguments.tie_break_policy = "abstain" =>
                      (TiedProbs(HelperProbs[i + 1]) <=>
                           \/ EmittedAt(i) = {}
                           \/ \E j \in EmittedAt(i) : result.returned[j].prediction = None)
               /\ result.arguments.tie_break_policy = "random" =>
                      \A j \in EmittedAt(i), c \in LabelIndices :
                          ProbIn(result.returned[j].prediction, c) # HelperProbs[i + 1][c + 1]
                              <=> /\ TiedProbs(HelperProbs[i + 1])
                                  /\ c \in TieSet(HelperProbs[i + 1])
    /\ (result.op = "_score_single_label" /\ result.raised = "") =>
           /\ result.arguments.tie_break_policy = "abstain" =>
                  /\ Len(result.report.prediction) = Cardinality(UntiedHelperRows)
                  /\ \A j \in 1..Cardinality(UntiedHelperRows) :
                         /\ result.report.annotation[j]
                                = annotation_array[Nth(UntiedHelperRows, j - 1) + 1]
                         /\ TieSet(HelperProbs[Nth(UntiedHelperRows, j - 1) + 1])
                                = {result.report.prediction[j]}
           /\ result.arguments.tie_break_policy = "random" =>
                  \A i \in HelperRows :
                      result.report.prediction[i + 1] \in TieSet(HelperProbs[i + 1])

\* under random a probability less than 1e-8 below the greatest was moved as a member
\* of the tie set, and one exactly 1e-8 below the greatest was left as it was
C16_Witness ==
    /\ result.op = "_make_single_label_records"
    /\ result.raised = ""
    /\ result.arguments.tie_break_policy = "random"
    /\ \E i \in HelperRows, c, d \in LabelIndices : \E j \in EmittedAt(i) :
        /\ HelperProbs[i + 1][c + 1] = SeqMax(HelperProbs[i + 1]) - (Tolerance - 1)
        /\ HelperProbs[i + 1][d + 1] = SeqMax(HelperProbs[i + 1]) - Tolerance
        /\ ProbIn(result.returned[j].prediction, c) # HelperProbs[i + 1][c + 1]
        /\ ProbIn(result.returned[j].prediction, d) = HelperProbs[i + 1][d + 1]

PredictOn(wl) ==
    make_single_label_records(
        compute_single_label_probs(wl), SubSeq(InputRecords, 1, Len(wl)),
        result.arguments.include_abstentions, result.arguments.prediction_agent,
        result.arguments.tie_break_policy, numpy_build)

\* the predictions an outcome holds for the row at row index i (none: the row was dropped)
PredictionsFor(out, i) ==
    {out.value[j].prediction :
        j \in {j \in DOMAIN out.value : out.value[j].id = InputRecords[i + 1].id}}

\* the matrix wl with every row but the one at row index i replaced by the row filler
OtherRowsReplaced(wl, i, filler) == [j \in 1..Len(wl) |-> IF j = i + 1 THEN wl[j] ELSE filler]

\* matrices that agree with the input matrix on the row at row index i: the rows
\* after it removed, and the other rows replaced by a row in which every rule
\* abstains, or by a row in which every rule votes the first label
MatricesAgreeingOn(i) ==
    {SubSeq(InputMatrix, 1, i + 1),
     OtherRowsReplaced(InputMatrix, i, [r \in 1..NumRules |-> -1]),
     OtherRowsReplaced(InputMatrix, i, [r \in 1..NumRules |-> 0])}

SamePredictionFor(out, i) ==
    out.raised = "" => PredictionsFor(out, i) = {result.returned[j].prediction : j \in EmittedFor(i)}

\* C18: the prediction single-label predict emits for the row at row index i is the
\* one it emits, under the same policy and flags, for the row at row index i of any
\* matrix that has the same row there: the rows after it, and what the other rows
\* hold, change nothing of it.
C18_PredictionDependsOnOwnRowOnly ==
    PredictOk =>
        \A i \in RowIndices :
            \A wl \in MatricesAgreeingOn(i) : SamePredictionFor(PredictOn(wl), i)

\* under random, a tied row that follows a row of other votes got its winner
C18_Witness ==
    /\ PredictOk
    /\ PredictPolicy = "random"
    /\ \E i \in RowIndices :
        /\ i > 0
        /\ TiedRow(InputMatrix[i + 1])
        /\ InputMatrix[i] # InputMatrix[i + 1]
        /\ \E j \in EmittedFor(i) : result.returned[j].prediction # None

\* the objects of a list of records
Objects(recs) == {recs[j].object : j \in DOMAIN recs}

\* rec is a copy of the record original with the prediction and the provenance set
CopyOf(rec, original) ==
    /\ rec.object # original.object
    /\ rec.object.source = original.object.source
    /\ rec.id = original.id

\* C19: a predict call, single-label or multi-label, whatever its policy and flags,
\* leaves the weak label matrix and every record of the caller (its prediction and
\* its prediction_agent too) as they were before the call; every record it returns is
\* a new object, a copy of one input record, that is no input record and no other
\* returned record.
C19_PredictLeavesInputsAndReturnsCopies ==
    [][result'.op = "predict" =>
           /\ wl_matrix' = wl_matrix
           /\ annotation' = annotation
           /\ records' = records
           /\ Objects(result'.returned) \cap Objects(records) = {}
           /\ Cardinality(Objects(result'.returned)) = Len(result'.returned)
           /\ \A j \in DOMAIN result'.returned :
                  \E i \in DOMAIN records : CopyOf(result'.returned[j], records[i])]_vars

\* a multi-label predict call returned a record with a prediction and a
\* prediction_agent while the caller's record has neither
C19_Witness ==
    /\ MultiPredict
    /\ result.raised = ""
    /\ \E i \in DOMAIN records, j \in DOMAIN result.returned :
        /\ CopyOf(result.returned[j], records[i])
        /\ result.returned[j].prediction # None
        /\ result.returned[j].prediction_agent = "MajorityVoter"
        /\ records[i].prediction = None
        /\ records[i].prediction_agent = "None"

\* a multi-label score call has reached classification_report
MultiScoreOk == multi_label /\ result.op = "score" /\ result.raised = ""

\* the probability row of the row at row index i of the annotated matrix
ScoredProbs(i) == multi_label_probs_row(matrix("True")[i + 1])

\* the row indices of the annotated matrix whose probability row is not all nan
KeptScoredRows == {i \in ScoredRows : ~all_nan(ScoredProbs(i))}

\* C20: multi-label score gives classification_report the annotations and the
\* predictions of exactly the annotated rows whose probability row is not all nan,
\* in their order and row by row; the prediction of a label is 1 exactly when its
\* probability is greater than 0.5, and 0 otherwise.
C20_MultiScoreThresholdsAndDropsAbstained ==
    MultiScoreOk =>
        /\ Len(result.report.annotation) = Cardinality(KeptScoredRows)
        /\ Len(result.report.prediction) = Cardinality(KeptScoredRows)
        /\ \A j \in 1..Cardinality(KeptScoredRows) :
               /\ result.report.annotation[j]
                      = annotation_array[Nth(KeptScoredRows, j - 1) + 1]
               /\ \A c \in 1..cardinality :
                      /\ result.report.prediction[j][c] \in {0, 1}
                      /\ result.report.prediction[j][c] = 1
                             <=> 2 * ScoredProbs(Nth(KeptScoredRows, j - 1))[c] > Scale

\* a fully abstained row ahead of a row with a voted label was removed from both arrays
C20_Witness ==
    /\ MultiScoreOk
    /\ Cardinality(ScoredRows) = 2
    /\ KeptScoredRows = {1}
    /\ Len(result.report.annotation) = 1
    /\ result.report.annotation[1] # annotation_array[1]
    /\ \E c, d \in 1..cardinality :
           result.report.prediction[1][c] = 1 /\ result.report.prediction[1][d] = 0

\* C21: a predict call that fails returns no record, not even the records of the rows
\* it went through before it failed, and leaves every record of the caller as it was.
C21_FailedPredictReturnsNothing ==
    [][(result'.op = "predict" /\ result'.raised # "") =>
           /\ result'.returned = <<>>
           /\ records' = records]_vars

\* a predict call under true-random failed on a tied row that follows an untied row
C21_Witness ==
    /\ ~multi_label
    /\ result.op = "predict"
    /\ result.raised = "NotImplementedError"
    /\ Len(InputMatrix) = 2
    /\ ~TiedRow(InputMatrix[1])
    /\ TiedRow(InputMatrix[2])
    /\ result.returned = <<>>

\* C22: every fit call on a MajorityVoter fails with NotImplementedError and leaves
\* the weak labels as they were; the predict and score calls made after it, as those
\* made before it, never fail for want of a fit.
C22_FitAlwaysFailsAndChangesNothing ==
    [][/\ result'.op = "fit" =>
              /\ result'.raised = "NotImplementedError"
              /\ result'.returned = <<>>
              /\ result'.report = NoReport
              /\ UNCHANGED <<multi_label, wl_matrix, annotation, records, numpy_build, models, es>>
       /\ result'.op \in {"predict", "score"} => result'.raised # "NotFittedError"]_vars

\* fit was called on a dataset of two records and failed
C22_Witness ==
    /\ result.op = "fit"
    /\ result.raised = "NotImplementedError"
    /\ Len(wl_matrix) = 2
    /\ records = NewRecords(2)

\* the class indices score gives the rows of the annotated matrix under the random policy
ScoreRandomPrediction ==
    score_single_label(compute_single_label_probs(matrix("True")), "random").prediction

\* C23: for every tied row at row index i of a single-label matrix, the first label of
\* the prediction predict emits for the row under random is the label whose index
\* score gives the row under random, on the same matrix.
C23_PredictAndScoreAgreeOnTieWinner ==
    (PredictOk /\ PredictPolicy = "random" /\ InputMatrix = matrix("True")) =>
        \A i \in RowIndices :
            TiedRow(InputMatrix[i + 1]) =>
                \A j \in EmittedFor(i) :
                    /\ result.returned[j].prediction # None
                    /\ label2int(result.returned[j].prediction[1][1])
                           = ScoreRandomPrediction[i + 1]

\* a predict or score call was made with a tie_break_policy string that names no policy
UnknownPolicyCall ==
    /\ result.op \in {"predict", "score"}
    /\ result.arguments.tie_break_policy \notin TieBreakPolicy

\* C24: predict and score called with a tie_break_policy string that is none of the
\* enumerated values fail with ValueError and give nothing, whatever the weak label
\* matrix, single-label or multi-label.
C24_UnknownPolicyIsValueError ==
    UnknownPolicyCall =>
        /\ result.raised = "ValueError"
        /\ result.returned = <<>>
        /\ result.report = NoReport

\* C24, amended: on single-label weak labels, predict and score called with a
\* tie_break_policy string that is none of the enumerated values fail with ValueError
\* and give nothing, whatever the matrix; on multi-label weak labels the policy is
\* not read and the call does not fail.
C24_UnknownPolicyIsValueErrorUnlessMultiLabel ==
    UnknownPolicyCall =>
        IF multi_label
        THEN result.raised = ""
        ELSE /\ result.raised = "ValueError"
             /\ result.returned = <<>>
             /\ result.report = NoReport

\* a single-label predict call with an unknown policy failed on a matrix of two
\* untied rows, which no policy would have had to resolve
C24_Witness ==
    /\ UnknownPolicyCall
    /\ ~multi_label
    /\ result.op = "predict"
    /\ result.raised = "ValueError"
    /\ Len(InputMatrix) = 2
    /\ \A i \in RowIndices : ~TiedRow(InputMatrix[i + 1])


\* ---------------------------------------------------------------------------
\* FlyingSquid (label_models.py, class FlyingSquid)
\* ---------------------------------------------------------------------------

MaxFlyingSquidRecords == 1

MaxFits == 2

\* FlyingSquid.__init__ raises TooFewRulesError below three rules
FlyingSquidRules == <<"rule0", "rule1", "rule2">>

FlyingSquidVotes == {-1, 0}

\* fit loops over range(1 if cardinality == 2 else cardinality)
NumModels == IF cardinality = 2 THEN 1 ELSE cardinality

\* which fit call trained the stored models (0: none did)
FitCallOf(ms) == IF ms = <<>> THEN 0 ELSE ms[1].fit_call

\* fit, were self._models extended inside the loop
flyingsquid_fit_storing_early(ms, failing_model) ==
    LET trained == [i \in 1..NumModels |->
                        [label |-> i - 1, m |-> Len(FlyingSquidRules),
                         fit_call |-> FitCallOf(ms) + 1]]
    IN  IF failing_model = 0
        THEN [raised |-> "", models |-> trained]
        ELSE [raised |-> "Exception",
              models |-> SubSeq(trained, 1, failing_model - 1)]

\* FlyingSquid.fit: the library's model.fit of model number failing_model
\* raises (0: none raises); self._models is assigned after the loop only
flyingsquid_fit(ms, failing_model) ==
    LET trained == [i \in 1..NumModels |->
                        [label |-> i - 1, m |-> Len(FlyingSquidRules),
                         fit_call |-> FitCallOf(ms) + 1]]
    IN  IF failing_model = 0
        THEN [raised |-> "", models |-> trained]
        ELSE [raised |-> "Exception", models |-> ms]

\* FlyingSquid._predict: NotFittedError without models, else what the
\* library's predict_proba and the code after it come to
flyingsquid__predict(ms, library_outcome) ==
    IF ms = <<>> THEN "NotFittedError" ELSE library_outcome

\* FlyingSquid.predict and FlyingSquid.score up to the probabilities: the
\* policy string is converted first, then _predict runs
flyingsquid_call(ms, tie_break_policy, library_outcome) ==
    IF tie_break_policy \notin TieBreakPolicy
    THEN "ValueError"
    ELSE flyingsquid__predict(ms, library_outcome)

\* what a fitted predict can come to: the records, the NotImplementedError of
\* a tie under true-random, an error of the library
FlyingSquidPredictOutcomes(tie_break_policy) ==
    {"", "Exception"}
        \cup (IF tie_break_policy = "true-random"
              THEN {"NotImplementedError"} ELSE {})

\* what a fitted score can come to: as predict, and the ValueError of
\* annotation.max() over no row
FlyingSquidScoreOutcomes(tie_break_policy) ==
    FlyingSquidPredictOutcomes(tie_break_policy) \cup {"ValueError"}

\* a FlyingSquid label model right after construction: three rules, no model
InitFlyingSquid ==
    /\ multi_label = FALSE
    /\ \E n \in 1..MaxFlyingSquidRecords :
        /\ wl_matrix \in [1..n -> [1..Len(FlyingSquidRules) -> FlyingSquidVotes]]
        /\ annotation \in [1..n -> {-1, 0}]
        /\ records = NewRecords(n)
    /\ numpy_build = "scalar"
    /\ result = NoCall
    /\ models = <<>>
    /\ es = NoElasticsearch

FlyingSquidFit ==
    /\ result = NoCall
    /\ FitCallOf(models) < MaxFits
    /\ \E include_annotated_records \in BOOLEAN, failing_model \in 0..NumModels :
        LET out == flyingsquid_fit(models, failing_model)
        IN  /\ models' = out.models
            /\ result' = [op |-> "FlyingSquid.fit",
                          arguments |-> [NoArguments EXCEPT
                              !.include_annotated_records = include_annotated_records],
                          raised |-> out.raised,
                          returned |-> <<>>, report |-> NoReport]
    /\ UNCHANGED <<multi_label, wl_matrix, annotation, records, numpy_build, es>>

FlyingSquidPredict ==
    /\ result = NoCall
    /\ \E include_annotated_records \in BOOLEAN, include_abstentions \in BOOLEAN,
          tie_break_policy \in PolicyArguments :
        \E library_outcome \in FlyingSquidPredictOutcomes(tie_break_policy) :
            result' = [op |-> "FlyingSquid.predict",
                       arguments |-> [include_annotated_records |-> include_annotated_records,
                                      include_abstentions |-> include_abstentions,
                                      prediction_agent |-> "FlyingSquid",
                                      tie_break_policy |-> tie_break_policy],
                       raised |-> flyingsquid_call(models, tie_break_policy,
                                                   library_outcome),
                       returned |-> <<>>, report |-> NoReport]
    /\ UNCHANGED <<multi_label, wl_matrix, annotation, records, numpy_build, models, es>>

FlyingSquidScore ==
    /\ result = NoCall
    /\ \E tie_break_policy \in PolicyArguments :
        \E library_outcome \in FlyingSquidScoreOutcomes(tie_break_policy) :
            result' = [op |-> "FlyingSquid.score",
                       arguments |-> [NoArguments EXCEPT
                                          !.tie_break_policy = tie_break_policy],
                       raised |-> flyingsquid_call(models, tie_break_policy,
                                                   library_outcome),
                       returned |-> <<>>, report |-> NoReport]
    /\ UNCHANGED <<multi_label, wl_matrix, annotation, records, numpy_build, models, es>>

NextFlyingSquid == FlyingSquidFit \/ FlyingSquidPredict \/ FlyingSquidScore \/ Discard

SpecFlyingSquid == InitFlyingSquid /\ [][NextFlyingSquid]_vars

FlyingSquidCalls == {"FlyingSquid.predict", "FlyingSquid.score"}

\* C25, as stated: predict and score raise NotFittedError whenever no fit has
\* completed, whatever their arguments; after a completed fit they never
\* raise it; a fit that fails leaves the stored models as they were
C25_NotFittedUntilFitCompletes ==
    [][/\ (result'.op \in FlyingSquidCalls /\ models = <<>>)
            => result'.raised = "NotFittedError"
       /\ (result'.op \in FlyingSquidCalls /\ models # <<>>)
            => result'.raised # "NotFittedError"
       /\ (result'.op = "FlyingSquid.fit" /\ result'.raised # "")
            => models' = models
       /\ (result'.op = "FlyingSquid.fit" /\ result'.raised = "")
            => models' # <<>>
       /\ models # <<>> => models' # <<>>]_vars

\* C25, amended: before any fit has completed, predict and score raise
\* NotFittedError when their tie_break_policy names a policy, and ValueError
\* when it does not; after a completed fit they never raise NotFittedError;
\* a fit that fails leaves the stored models as they were
C25_NotFittedUntilFitCompletesGivenPolicy ==
    [][/\ (result'.op \in FlyingSquidCalls /\ models = <<>>)
            => result'.raised =
                   (IF result'.arguments.tie_break_policy \in TieBreakPolicy
                    THEN "NotFittedError" ELSE "ValueError")
       /\ (result'.op \in FlyingSquidCalls /\ models # <<>>)
            => result'.raised # "NotFittedError"
       /\ (result'.op = "FlyingSquid.fit" /\ result'.raised # "")
            => models' = models
       /\ (result'.op = "FlyingSquid.fit" /\ result'.raised = "")
            => models' # <<>>
       /\ models # <<>> => models' # <<>>]_vars

\* a fit failed after an earlier one completed, and the models stayed
C25_Witness ==
    /\ result.op = "FlyingSquid.fit"
    /\ result.raised # ""
    /\ models # <<>>
    /\ FitCallOf(models) = 1


\* ---------------------------------------------------------------------------
\* DatasetsDAO (server/datasets/dao.py)
\* ---------------------------------------------------------------------------

MaxDatasets == 2

NO_WORKSPACE == ""

\* a dataset stored without an owner has no owner field in its document
MissingOwner == "(missing)"

Owners == {MissingOwner, "ana"}

TaskTypes == {"TextClassification", "TokenClassification"}

DatasetDB == "DatasetDB"

\* json.dumps and json.loads of a tag value
json_dumps(value) == <<"json", value>>

json_loads(text) == text[2]

\* the datasets a client may hand to the DAO
DatasetArguments ==
    [id : 1..MaxDatasets, owner : Owners, task : TaskTypes, tags : {[env |-> "prod"]}]

\* _dataset_to_es_doc: the tags become a list of key and dumped value
dataset_to_es_doc(dataset) ==
    [id |-> dataset.id, owner |-> dataset.owner, task |-> dataset.task,
     tags |-> <<[key |-> "env", value |-> json_dumps(dataset.tags.env)]>>]

\* _es_doc_to_dataset: the key-value list becomes a dict again, then
\* ds_class.parse_obj
es_doc_to_dataset(doc, ds_class) ==
    [id |-> doc.id, owner |-> doc.owner, task |-> doc.task,
     tags |-> [env |-> json_loads(doc.tags[1].value)], class |-> ds_class]

\* the owner filter of list_datasets: none for an empty owner_list, else the
\* owner is listed, or is missing while NO_WORKSPACE is listed
owner_filter(doc, owner_list) ==
    \/ owner_list = {}
    \/ doc.owner # MissingOwner /\ doc.owner \in owner_list
    \/ doc.owner = MissingOwner /\ NO_WORKSPACE \in owner_list

\* the task filter of list_datasets: present for a non-empty task_dataset_map
task_filter(doc, task_dataset_map) ==
    \/ DOMAIN task_dataset_map = {}
    \/ doc.task \in DOMAIN task_dataset_map

\* self._es.list_documents: the documents of the index the query matches
list_documents(engine, owner_list, task_dataset_map) ==
    {doc \in engine.documents :
        owner_filter(doc, owner_list) /\ task_filter(doc, task_dataset_map)}

\* the orders in which the engine may hand out a set of documents
Orderings(docs) ==
    {order \in [1..Cardinality(docs) -> docs] :
        \A doc \in docs : \E i \in 1..Cardinality(docs) : order[i] = doc}

\* task_dataset_map[task]: a dict given by the caller holds every task that
\* passed the filter; the defaultdict(lambda x: DatasetDB) put in place of a
\* missing map calls its factory without argument, a TypeError
ds_class_of(task_dataset_map, task) ==
    IF DOMAIN task_dataset_map = {}
    THEN "TypeError"
    ELSE task_dataset_map[task]

\* list_datasets over the documents in the order the engine gave them
list_datasets(docs, task_dataset_map) ==
    IF \E i \in 1..Len(docs) : ds_class_of(task_dataset_map, docs[i].task) = "TypeError"
    THEN [raised |-> "TypeError", returned |-> <<>>]
    ELSE [raised |-> "",
          returned |-> [i \in 1..Len(docs) |->
                           es_doc_to_dataset(docs[i],
                               ds_class_of(task_dataset_map, docs[i].task))]]

\* delete_dataset, were the document deleted after the index without finally
delete_dataset_without_finally(engine, dataset, index_fails, document_fails) ==
    LET index_request == [call |-> "delete_index", id |-> dataset.id,
                          failed |-> index_fails]
        document_request == [call |-> "delete_document", id |-> dataset.id,
                             failed |-> document_fails]
    IN  IF index_fails
        THEN [raised |-> "delete_index failed",
              es |-> [engine EXCEPT !.requests = <<index_request>>]]
        ELSE [raised |-> IF document_fails THEN "delete_document failed" ELSE "",
              es |-> [documents |-> IF document_fails THEN engine.documents
                                    ELSE {d \in engine.documents : d.id # dataset.id},
                      indices |-> engine.indices \ {dataset.id},
                      requests |-> <<index_request, document_request>>]]

\* delete_dataset: try delete_index, finally delete_document; an error raised
\* in the finally block takes the place of the one of the try block
delete_dataset(engine, dataset, index_fails, document_fails) ==
    LET index_request == [call |-> "delete_index", id |-> dataset.id,
                          failed |-> index_fails]
        document_request == [call |-> "delete_document", id |-> dataset.id,
                             failed |-> document_fails]
    IN  [raised |-> IF document_fails THEN "delete_document failed"
                    ELSE IF index_fails THEN "delete_index failed"
                    ELSE "",
         es |-> [documents |-> IF document_fails THEN engine.documents
                               ELSE {d \in engine.documents : d.id # dataset.id},
                 indices |-> IF index_fails THEN engine.indices
                             ELSE engine.indices \ {dataset.id},
                 requests |-> <<index_request, document_request>>]]

\* create_dataset: add_document under the dataset's id, then the records index
create_dataset(engine, dataset) ==
    [documents |-> {d \in engine.documents : d.id # dataset.id}
                       \cup {dataset_to_es_doc(dataset)},
     indices |-> engine.indices \cup {dataset.id},
     requests |-> <<[call |-> "add_document", id |-> dataset.id, failed |-> FALSE],
                    [call |-> "create_index", id |-> dataset.id, failed |-> FALSE]>>]

OwnerLists == {{}, {NO_WORKSPACE}, {"ana"}, {NO_WORKSPACE, "ana"}}

NoTaskDatasetMap == [task \in {} |-> DatasetDB]

TaskDatasetMaps ==
    {NoTaskDatasetMap,
     [task \in {"TextClassification"} |-> "TextClassificationDatasetDB"],
     [task \in TaskTypes |-> IF task = "TextClassification"
                             THEN "TextClassificationDatasetDB"
                             ELSE "TokenClassificationDatasetDB"]}

\* the DAO after init(): the datasets index exists and is empty
InitDao ==
    /\ multi_label = FALSE
    /\ wl_matrix = <<>>
    /\ annotation = <<>>
    /\ records = <<>>
    /\ numpy_build = "scalar"
    /\ models = <<>>
    /\ es = NoElasticsearch
    /\ result = NoCall

CreateDataset ==
    /\ result = NoCall
    /\ \E dataset \in DatasetArguments :
        /\ es' = create_dataset(es, dataset)
        /\ result' = [op |-> "create_dataset", arguments |-> [dataset |-> dataset],
                      raised |-> "", returned |-> <<dataset>>, report |-> NoReport]
    /\ UNCHANGED <<multi_label, wl_matrix, annotation, records, numpy_build, models>>

ListDatasets ==
    /\ result = NoCall
    /\ \E owner_list \in OwnerLists, task_dataset_map \in TaskDatasetMaps :
        \E docs \in Orderings(list_documents(es, owner_list, task_dataset_map)) :
            LET out == list_datasets(docs, task_dataset_map)
            IN  /\ es' = [es EXCEPT !.requests =
                             <<[call |-> "list_documents", id |-> 0, failed |-> FALSE]>>]
                /\ result' = [op |-> "list_datasets",
                              arguments |-> [owner_list |-> owner_list,
                                             task_dataset_map |-> task_dataset_map],
                              raised |-> out.raised, returned |-> out.returned,
                              report |-> NoReport]
    /\ UNCHANGED <<multi_label, wl_matrix, annotation, records, numpy_build, models>>

DeleteDataset ==
    /\ result = NoCall
    /\ \E dataset \in DatasetArguments, index_fails \in BOOLEAN, document_fails \in BOOLEAN :
        LET out == delete_dataset(es, dataset, index_fails, document_fails)
        IN  /\ es' = out.es
            /\ result' = [op |-> "delete_dataset", arguments |-> [dataset |-> dataset],
                          raised |-> out.raised, returned |-> <<>>, report |-> NoReport]
    /\ UNCHANGED <<multi_label, wl_matrix, annotation, records, numpy_build, models>>

\* the caller drops the outcome of the last call; the stored datasets stay
DiscardDao ==
    /\ result # NoCall
    /\ result' = NoCall
    /\ es' = [es EXCEPT !.requests = <<>>]
    /\ UNCHANGED <<multi_label, wl_matrix, annotation, records, numpy_build, models>>

NextDao == CreateDataset \/ ListDatasets \/ DeleteDataset \/ DiscardDao

SpecDao == InitDao /\ [][NextDao]_vars

\* the stored datasets a list_datasets call with this owner_list has to give
MatchingDatasets(owner_list) ==
    {es_doc_to_dataset(doc, DatasetDB) :
        doc \in {d \in es.documents : owner_filter(d, owner_list)}}

ListedWithoutMap ==
    /\ result.op = "list_datasets"
    /\ result.arguments.task_dataset_map = NoTaskDatasetMap

\* C26: list_datasets without a task_dataset_map returns, without failing,
\* every stored dataset that matches the owner filter and no other, each
\* parsed as the base dataset type
C26_ListDatasetsReturnsEveryMatch ==
    ListedWithoutMap =>
        /\ result.raised = ""
        /\ {result.returned[i] : i \in 1..Len(result.returned)}
               = MatchingDatasets(result.arguments.owner_list)
        /\ Len(result.returned)
               = Cardinality(MatchingDatasets(result.arguments.owner_list))


\* a list_datasets call without a task_dataset_map found a stored dataset
C26_Reached ==
    /\ ListedWithoutMap
    /\ MatchingDatasets(result.arguments.owner_list) # {}

IndexDeletionFailed ==
    /\ result.op = "delete_dataset"
    /\ \E i \in 1..Len(es.requests) :
           es.requests[i].call = "delete_index" /\ es.requests[i].failed

\* the last request of the call is the deletion of the dataset's document
DocumentDeletionIssued ==
    /\ es.requests # <<>>
    /\ es.requests[Len(es.requests)].call = "delete_document"
    /\ es.requests[Len(es.requests)].id = result.arguments.dataset.id

DocumentDeletionFailed ==
    DocumentDeletionIssued /\ es.requests[Len(es.requests)].failed

\* C27, as stated: delete_dataset always issues the deletion of the dataset's
\* document, and whenever the deletion of the records index failed the caller
\* gets the error of the index deletion
C27_DocumentDeletedAndIndexErrorRaised ==
    result.op = "delete_dataset" =>
        /\ DocumentDeletionIssued
        /\ IndexDeletionFailed => result.raised = "delete_index failed"

\* C27, amended: delete_dataset always issues the deletion of the dataset's
\* document; when the deletion of the records index failed the caller gets
\* the error of the index deletion if the document deletion went through, and
\* the error of the document deletion if that failed too
C27_DocumentDeletedAndLastErrorRaised ==
    result.op = "delete_dataset" =>
        /\ DocumentDeletionIssued
        /\ IndexDeletionFailed =>
               result.raised = (IF DocumentDeletionFailed
                                THEN "delete_document failed"
                                ELSE "delete_index failed")

\* the index deletion failed, the document of a stored dataset went all the same
C27_Witness ==
    /\ IndexDeletionFailed
    /\ DocumentDeletionIssued
    /\ ~DocumentDeletionFailed
    /\ result.arguments.dataset.id \in es.indices
    /\ \A d \in es.documents : d.id # result.arguments.dataset.id
    /\ result.raised = "delete_index failed"


\* the row index of the input row the record at place j of the returned list is made from
RowOf(j) == CHOOSE i \in RowIndices : InputRecords[i + 1].id = result.returned[j].id

\* the rows single-label predict leaves out: tied, under abstain, abstentions excluded
LeftOut(i) ==
    /\ TiedRow(InputMatrix[i + 1])
    /\ PredictPolicy = "abstain"
    /\ ~result.arguments.include_abstentions

\* C28: single-label predict returns records of input rows in the order of the
\* rows, at most one per row, and none for a row exactly when the row is tied,
\* the policy is abstain and include_abstentions is false; so under random, or
\* with include_abstentions true, there are as many records as rows.
C28_OutputFollowsInputOrder ==
    PredictOk =>
        /\ \A j \in DOMAIN result.returned :
               \E i \in RowIndices : InputRecords[i + 1].id = result.returned[j].id
        /\ \A j, k \in DOMAIN result.returned : j < k => RowOf(j) < RowOf(k)
        /\ \A i \in RowIndices :
               /\ Cardinality(EmittedFor(i)) <= 1
               /\ EmittedFor(i) = {} <=> LeftOut(i)
        /\ (PredictPolicy = "random" \/ result.arguments.include_abstentions)
               => Len(result.returned) = Len(InputMatrix)

\* under random two rows, the first of them tied, came back as two records in
\* the order of the rows
C28_Witness ==
    /\ PredictOk
    /\ PredictPolicy = "random"
    /\ Len(InputMatrix) = 2
    /\ TiedRow(InputMatrix[1])
    /\ ~AllAbstain(InputMatrix[1])
    /\ Len(result.returned) = 2
    /\ RowOf(1) = 0
    /\ RowOf(2) = 1


\* the sum of the probabilities a prediction lists
PredictionTotal(prediction) ==
    SeqSum([j \in 1..Len(prediction) |-> prediction[j][2]])

\* C29: under the random policy, the first label of the prediction of a tied row
\* is a member of the row's tie set, the probabilities of the prediction sum to
\* what the row's probabilities summed to before the adjustment (1), and none
\* of them is negative.
C29_RandomKeepsTotalAndTieSet ==
    (PredictOk /\ PredictPolicy = "random") =>
        \A i \in RowIndices :
            TiedRow(InputMatrix[i + 1]) =>
                \A j \in EmittedFor(i) :
                    /\ result.returned[j].prediction # None
                    /\ label2int(result.returned[j].prediction[1][1])
                           \in TopLabels(InputMatrix[i + 1])
                    /\ PredictionTotal(result.returned[j].prediction)
                           = SeqSum(single_label_probs_row(InputMatrix[i + 1]))
                    /\ PredictionTotal(result.returned[j].prediction) = Scale
                    /\ \A k \in DOMAIN result.returned[j].prediction :
                           result.returned[j].prediction[k][2] >= 0


\* a single-label score call under abstain on weak labels with an annotated row
AbstainScoreCall ==
    /\ ~multi_label
    /\ result.op = "score"
    /\ result.arguments.tie_break_policy = "abstain"
    /\ ScoredRows # {}

====
